---- MODULE Spec2Model ----
(***************************************************************************)
(* Host-based routing and redirect decisions of the BetterGovPH data       *)
(* visualization servers: the route handlers of altgovph_routes.rs and of  *)
(* the standalone application main.rs, with the template engine (Tera)     *)
(* as an external collaborator whose load and render can fail.             *)
(***************************************************************************)
EXTENDS Integers, Sequences, FiniteSets, TLC

(* ------------------------------ bounds --------------------------------- *)

\* requests accepted by the server in one behaviour
MaxRequests == 2

\* worker threads of the HTTP server handling requests in parallel
NumWorkers == 2

(* --------------------------- status codes ------------------------------ *)

StatusOk == 200

StatusPermanentRedirect == 308

StatusInternalServerError == 500

(* ----------------------------- strings --------------------------------- *)

\* str::contains: t occurs in s as a contiguous substring
Contains(s, t) ==
    \E i \in 1..(Len(s) - Len(t) + 1) : SubSeq(s, i, i + Len(t) - 1) = t

\* str::ends_with, used to state where the query lands in a Location
EndsWith(s, t) ==
    /\ Len(t) <= Len(s)
    /\ SubSeq(s, Len(s) - Len(t) + 1, Len(s)) = t

(* ----------------------------- options --------------------------------- *)

None == [some |-> FALSE]

Some(v) == [some |-> TRUE, val |-> v]

(* ----------------------------- requests -------------------------------- *)

\* Host texts a client can send.
HostTexts ==
    { "kenchlightyear.com", "www.kenchlightyear.com",
      "m.kenchlightyear.com", "mobile.kenchlightyear.com",
      "em.kenchlightyear.com", "api.kenchlightyear.com",
      "kenchlightyear.com:8080", "KENCHLIGHTYEAR.COM",
      "altgovph.site" }

\* A Host header value: its visible text, and whether it also holds a byte
\* outside visible ASCII (then HeaderValue::to_str fails).
HostHeaders ==
    { Some([text |-> h, opaque |-> FALSE]) : h \in HostTexts }
    \cup { Some([text |-> h, opaque |-> TRUE]) :
             h \in {"kenchlightyear.com", "m.kenchlightyear.com"} }
    \cup { None }

\* Uri::query(): None without a "?", Some(q) otherwise (q may be empty).
Queries == { None, Some(""), Some("year=2024"), Some("q=a?b&x=1") }

\* req.headers().get("host")
headers_get_host(req) == req.host

\* to_str that drops the bytes it cannot show instead of failing
to_str_Lossy(hv) == Some(hv.text)

\* HeaderValue::to_str
to_str(hv) == IF hv.opaque THEN None ELSE Some(hv.text)

(* ------------------- helpers of altgovph_routes.rs --------------------- *)

EmptyContext == [k \in {} |-> ""]

\* tera::Context::insert
Insert(ctx, k, v) ==
    [x \in (DOMAIN ctx) \cup {k} |-> IF x = k THEN v ELSE ctx[x]]

RECURSIVE InsertAll(_, _)
InsertAll(ctx, kvs) ==
    IF kvs = <<>> THEN ctx
    ELSE InsertAll(Insert(ctx, kvs[1][1], kvs[1][2]), Tail(kvs))

add_frontend_env_to_context(ctx) ==
    InsertAll(ctx, << <<"SITE_URL", "https://altgovph.site">>,
                      <<"SITE_NAME", "BetterGovPH">> >>)

\* the marker looked for at the start of the host only
HasMobileMarker_Prefix(host_str) ==
    \/ /\ Len(host_str) >= Len("m.kenchlightyear.com")
       /\ SubSeq(host_str, 1, Len("m.kenchlightyear.com"))
            = "m.kenchlightyear.com"
    \/ /\ Len(host_str) >= Len("mobile.kenchlightyear.com")
       /\ SubSeq(host_str, 1, Len("mobile.kenchlightyear.com"))
            = "mobile.kenchlightyear.com"

HasMobileMarker(host_str) ==
    \/ Contains(host_str, "m.kenchlightyear.com")
    \/ Contains(host_str, "mobile.kenchlightyear.com")

should_use_mobile_template(req) ==
    LET host == headers_get_host(req) IN
    IF host.some
    THEN LET host_str == to_str(host.val) IN
         IF host_str.some THEN HasMobileMarker(host_str.val) ELSE FALSE
    ELSE FALSE

\* the mobile check sending hosts without the marker to the mobile domain
check_mobile_redirect_enhanced_Active(req) ==
    LET host == headers_get_host(req) IN
    IF host.some
    THEN LET host_str == to_str(host.val) IN
         IF host_str.some /\ HasMobileMarker(host_str.val)
         THEN None
         ELSE Some([status |-> 308,
                    location |-> "https://m.kenchlightyear.com" \o req.path,
                    template |-> ""])
    ELSE None

check_mobile_redirect_enhanced(req) ==
    LET host == headers_get_host(req) IN
    IF host.some
    THEN LET host_str == to_str(host.val) IN
         IF host_str.some /\ HasMobileMarker(host_str.val)
         THEN None
         ELSE None
    ELSE None

\* the host test accepting every subdomain of the production domain
IsProductionHost_Suffix(host_str) ==
    EndsWith(host_str, "kenchlightyear.com")

\* the host test written with contains, as the mobile checks are
IsProductionHost_Contains(host_str) ==
    Contains(host_str, "kenchlightyear.com")

IsProductionHost(host_str) ==
    host_str = "kenchlightyear.com" \/ host_str = "www.kenchlightyear.com"

\* the path list with /nep added, as the comment in nep() announces
IsBlockedPath_WithNep(path) ==
    \/ path = "/budget" \/ path = "/flood" \/ path = "/alt" \/ path = "/dime"
    \/ path = "/budget-flood-correlation" \/ path = "/flood-dime-correlation"
    \/ path = "/nep"

IsBlockedPath(path) ==
    \/ path = "/budget" \/ path = "/flood" \/ path = "/alt" \/ path = "/dime"
    \/ path = "/budget-flood-correlation" \/ path = "/flood-dime-correlation"

\* the query appended without looking whether there is one
query_string_Always(req) ==
    "?" \o (IF req.query.some THEN req.query.val ELSE "")

query_string(req) ==
    IF req.query.some THEN "?" \o req.query.val ELSE ""

redirect_url(req) == "https://altgovph.site" \o req.path \o query_string(req)

PermanentRedirect(url) ==
    [status |-> StatusPermanentRedirect, location |-> url, template |-> ""]

check_production_domain_block(req) ==
    LET host == headers_get_host(req) IN
    IF host.some
    THEN LET host_str == to_str(host.val) IN
         IF /\ host_str.some
            /\ IsProductionHost(host_str.val)
            /\ IsBlockedPath(req.path)
         THEN Some(PermanentRedirect(redirect_url(req)))
         ELSE None
    ELSE None

\* the line println! writes when the block fires
RedirectLogLine(req) ==
    "Redirecting " \o req.path
        \o " from production kenchlightyear.com to altgovph.site"

(* ---------------- route handlers of altgovph_routes.rs ----------------- *)

\* Each handler: the checks it runs before the template engine, the values it
\* inserts into the context after the frontend environment, and its template
\* (by_host: the name is chosen with should_use_mobile_template).

altgovph_home ==
    [ name |-> "altgovph_home",
      checks_mobile |-> TRUE, checks_block |-> FALSE,
      inserts |-> <<
        <<"title", "BetterGovPH">>,
        <<"company_name", "BetterGovPH">>,
        <<"platform", "BetterGovPH">>,
        <<"SITE_NAME", "BetterGovPH">>,
        <<"SITE_URL", "https://altgovph.site">>,
        <<"og_title", "BetterGovPH">>,
        <<"og_description", "Promoting Data Transparency and Open Government in the Philippines">>,
        <<"og_url", "https://altgovph.site/">>,
        <<"og_image", "/static/images/gov_logo.png">> >>,
      by_host |-> TRUE,
      mobile_template |-> "mobile/altgovph_home.html",
      template |-> "altgovph_home.html" ]

budget ==
    [ name |-> "budget",
      checks_mobile |-> TRUE, checks_block |-> TRUE,
      inserts |-> <<
        <<"title", "Budget Analysis - BetterGovPH">>,
        <<"company_name", "BetterGovPH">>,
        <<"platform", "BetterGovPH">>,
        <<"SITE_NAME", "BetterGovPH">>,
        <<"SITE_URL", "https://altgovph.site">>,
        <<"og_title", "Budget Analysis - BetterGovPH">>,
        <<"og_description", "Government Data Analysis Platform for Budget and Flood Control Projects">>,
        <<"og_url", "https://altgovph.site/">>,
        <<"og_image", "/static/images/gov_logo.png">> >>,
      by_host |-> TRUE,
      mobile_template |-> "mobile/budget.html",
      template |-> "budget.html" ]

flood ==
    [ name |-> "flood",
      checks_mobile |-> TRUE, checks_block |-> TRUE,
      inserts |-> <<
        <<"title", "Flood Control Projects - BetterGovPH">>,
        <<"company_name", "BetterGovPH">>,
        <<"platform", "BetterGovPH">>,
        <<"SITE_NAME", "BetterGovPH">>,
        <<"SITE_URL", "https://altgovph.site">>,
        <<"og_title", "Flood Control Projects - BetterGovPH">>,
        <<"og_description", "Government Data Analysis Platform for Flood Control Infrastructure Projects">>,
        <<"og_url", "https://altgovph.site/">>,
        <<"og_image", "/static/images/gov_logo.png">> >>,
      by_host |-> TRUE,
      mobile_template |-> "mobile/flood.html",
      template |-> "flood.html" ]

dime ==
    [ name |-> "dime",
      checks_mobile |-> TRUE, checks_block |-> TRUE,
      inserts |-> <<
        <<"title", "DIME Infrastructure Projects - BetterGovPH">>,
        <<"company_name", "BetterGovPH">>,
        <<"platform", "BetterGovPH">>,
        <<"SITE_NAME", "BetterGovPH">>,
        <<"SITE_URL", "https://altgovph.site">>,
        <<"og_title", "DIME Infrastructure Projects - BetterGovPH">>,
        <<"og_description", "Department of Infrastructure and Mega-Projects Execution - Infrastructure Projects Tracker">>,
        <<"og_url", "https://altgovph.site/">>,
        <<"og_image", "/static/images/gov_logo.png">> >>,
      by_host |-> TRUE,
      mobile_template |-> "mobile/dime.html",
      template |-> "dime.html" ]

nep ==
    [ name |-> "nep",
      checks_mobile |-> TRUE, checks_block |-> TRUE,
      inserts |-> <<
        <<"title", "NEP Analysis - BetterGovPH">>,
        <<"company_name", "BetterGovPH">>,
        <<"platform", "BetterGovPH">>,
        <<"SITE_NAME", "BetterGovPH">>,
        <<"SITE_URL", "https://altgovph.site">>,
        <<"og_title", "NEP Analysis - BetterGovPH">>,
        <<"og_description", "Government Data Analysis Platform for National Expenditure Program Projects">>,
        <<"og_url", "https://altgovph.site/nep">>,
        <<"og_image", "/static/images/gov_logo.png">> >>,
      by_host |-> TRUE,
      mobile_template |-> "mobile/nep.html",
      template |-> "nep.html" ]

budget_nep_correlation ==
    [ name |-> "budget_nep_correlation",
      checks_mobile |-> TRUE, checks_block |-> TRUE,
      inserts |-> <<
        <<"title", "NEP-Budget Correlation Analysis - BetterGovPH">>,
        <<"company_name", "BetterGovPH">>,
        <<"platform", "BetterGovPH">>,
        <<"SITE_NAME", "BetterGovPH">>,
        <<"SITE_URL", "https://altgovph.site">>,
        <<"og_url", "https://altgovph.site/budget-nep-correlation">>,
        <<"og_image", "/static/images/gov_logo.png">> >>,
      by_host |-> TRUE,
      mobile_template |-> "mobile/budget_nep_correlation.html",
      template |-> "budget_nep_correlation.html" ]

budget_flood_correlation ==
    [ name |-> "budget_flood_correlation",
      checks_mobile |-> TRUE, checks_block |-> TRUE,
      inserts |-> <<
        <<"company_name", "BetterGovPH">>,
        <<"platform", "BetterGovPH">>,
        <<"SITE_NAME", "BetterGovPH">>,
        <<"SITE_URL", "https://altgovph.site">>,
        <<"og_url", "https://altgovph.site/budget-flood-correlation">>,
        <<"og_image", "/static/images/gov_logo.png">> >>,
      by_host |-> FALSE,
      template |-> "budget_flood_correlation.html" ]

flood_dime_correlation ==
    [ name |-> "flood_dime_correlation",
      checks_mobile |-> TRUE, checks_block |-> TRUE,
      inserts |-> <<
        <<"title", "Flood-DIME Correlation Analysis - BetterGovPH">>,
        <<"company_name", "BetterGovPH">>,
        <<"platform", "BetterGovPH">>,
        <<"SITE_NAME", "BetterGovPH">>,
        <<"SITE_URL", "https://altgovph.site">>,
        <<"og_url", "https://altgovph.site/flood-dime-correlation">>,
        <<"og_image", "/static/images/gov_logo.png">> >>,
      by_host |-> FALSE,
      template |-> "flood_dime_correlation.html" ]

(* --------------------- route handlers of main.rs ----------------------- *)

main_altgovph_home ==
    [ name |-> "main_altgovph_home",
      checks_mobile |-> FALSE, checks_block |-> FALSE,
      inserts |-> <<
        <<"title", "BetterGovPH Data Visualizations">>,
        <<"company_name", "BetterGovPH">>,
        <<"platform", "BetterGovPH">>,
        <<"SITE_NAME", "BetterGovPH Data Visualizations">>,
        <<"SITE_URL", "https://altgovph.site">> >>,
      by_host |-> FALSE,
      template |-> "visualizations_home.html" ]

\* budget of main.rs with the two checks of altgovph_routes.rs left in
main_budget_WithChecks ==
    [ name |-> "main_budget",
      checks_mobile |-> TRUE, checks_block |-> TRUE,
      inserts |-> <<
        <<"title", "Budget Analysis - BetterGovPH">>,
        <<"company_name", "BetterGovPH">>,
        <<"platform", "BetterGovPH">>,
        <<"SITE_NAME", "BetterGovPH Data Visualizations">>,
        <<"SITE_URL", "https://altgovph.site">> >>,
      by_host |-> FALSE,
      template |-> "budget.html" ]

main_budget ==
    [ name |-> "main_budget",
      checks_mobile |-> FALSE, checks_block |-> FALSE,
      inserts |-> <<
        <<"title", "Budget Analysis - BetterGovPH">>,
        <<"company_name", "BetterGovPH">>,
        <<"platform", "BetterGovPH">>,
        <<"SITE_NAME", "BetterGovPH Data Visualizations">>,
        <<"SITE_URL", "https://altgovph.site">> >>,
      by_host |-> FALSE,
      template |-> "budget.html" ]

main_flood ==
    [ name |-> "main_flood",
      checks_mobile |-> FALSE, checks_block |-> FALSE,
      inserts |-> <<
        <<"title", "Flood Control Projects - BetterGovPH">>,
        <<"company_name", "BetterGovPH">>,
        <<"platform", "BetterGovPH">>,
        <<"SITE_NAME", "BetterGovPH Data Visualizations">>,
        <<"SITE_URL", "https://altgovph.site">> >>,
      by_host |-> FALSE,
      template |-> "flood.html" ]

main_dime ==
    [ name |-> "main_dime",
      checks_mobile |-> FALSE, checks_block |-> FALSE,
      inserts |-> <<
        <<"title", "DIME Infrastructure Projects - BetterGovPH">>,
        <<"company_name", "BetterGovPH">>,
        <<"platform", "BetterGovPH">>,
        <<"SITE_NAME", "BetterGovPH Data Visualizations">>,
        <<"SITE_URL", "https://altgovph.site">> >>,
      by_host |-> FALSE,
      template |-> "dime.html" ]

main_nep ==
    [ name |-> "main_nep",
      checks_mobile |-> FALSE, checks_block |-> FALSE,
      inserts |-> <<
        <<"title", "NEP Analysis - BetterGovPH">>,
        <<"company_name", "BetterGovPH">>,
        <<"platform", "BetterGovPH">>,
        <<"SITE_NAME", "BetterGovPH Data Visualizations">>,
        <<"SITE_URL", "https://altgovph.site">> >>,
      by_host |-> FALSE,
      template |-> "nep.html" ]

main_map ==
    [ name |-> "main_map",
      checks_mobile |-> FALSE, checks_block |-> FALSE,
      inserts |-> <<
        <<"title", "Interactive Map - BetterGovPH">>,
        <<"company_name", "BetterGovPH">>,
        <<"platform", "BetterGovPH">>,
        <<"SITE_NAME", "BetterGovPH Data Visualizations">>,
        <<"SITE_URL", "https://altgovph.site">> >>,
      by_host |-> FALSE,
      template |-> "map.html" ]

main_about ==
    [ name |-> "main_about",
      checks_mobile |-> FALSE, checks_block |-> FALSE,
      inserts |-> <<
        <<"title", "About - BetterGovPH">>,
        <<"company_name", "BetterGovPH">>,
        <<"platform", "BetterGovPH">>,
        <<"SITE_NAME", "BetterGovPH Data Visualizations">>,
        <<"SITE_URL", "https://altgovph.site">> >>,
      by_host |-> FALSE,
      template |-> "about.html" ]

main_budget_nep_correlation ==
    [ name |-> "main_budget_nep_correlation",
      checks_mobile |-> FALSE, checks_block |-> FALSE,
      inserts |-> <<
        <<"title", "Budget-NEP Correlation - BetterGovPH">>,
        <<"company_name", "BetterGovPH">>,
        <<"platform", "BetterGovPH">>,
        <<"SITE_NAME", "BetterGovPH Data Visualizations">>,
        <<"SITE_URL", "https://altgovph.site">> >>,
      by_host |-> FALSE,
      template |-> "budget_nep_correlation.html" ]

main_budget_flood_correlation ==
    [ name |-> "main_budget_flood_correlation",
      checks_mobile |-> FALSE, checks_block |-> FALSE,
      inserts |-> <<
        <<"title", "Budget-Flood Correlation - BetterGovPH">>,
        <<"company_name", "BetterGovPH">>,
        <<"platform", "BetterGovPH">>,
        <<"SITE_NAME", "BetterGovPH Data Visualizations">>,
        <<"SITE_URL", "https://altgovph.site">> >>,
      by_host |-> FALSE,
      template |-> "budget_flood_correlation.html" ]

main_flood_dime_correlation ==
    [ name |-> "main_flood_dime_correlation",
      checks_mobile |-> FALSE, checks_block |-> FALSE,
      inserts |-> <<
        <<"title", "Flood-DIME Correlation - BetterGovPH">>,
        <<"company_name", "BetterGovPH">>,
        <<"platform", "BetterGovPH">>,
        <<"SITE_NAME", "BetterGovPH Data Visualizations">>,
        <<"SITE_URL", "https://altgovph.site">> >>,
      by_host |-> FALSE,
      template |-> "flood_dime_correlation.html" ]

(* ------------------- disabled helpers of main.rs ----------------------- *)

main_should_use_mobile_template(req) == FALSE

main_check_mobile_redirect_enhanced(req) == None

main_check_production_domain_block(req) == None

(* --------------------------- route tables ------------------------------ *)

\* App::new().service(web::resource(path).to(handler)) of altgovph_routes.rs
RoutesTable ==
    [ p \in { "/alt", "/budget", "/flood", "/dime", "/nep",
              "/budget-flood-correlation", "/budget-nep-correlation",
              "/flood-dime-correlation" } |->
        CASE p = "/alt" -> altgovph_home
          [] p = "/budget" -> budget
          [] p = "/flood" -> flood
          [] p = "/dime" -> dime
          [] p = "/nep" -> nep
          [] p = "/budget-flood-correlation" -> budget_flood_correlation
          [] p = "/budget-nep-correlation" -> budget_nep_correlation
          [] p = "/flood-dime-correlation" -> flood_dime_correlation ]

\* App::new().service(web::resource(path).to(handler)) of main.rs
MainTable ==
    [ p \in { "/", "/budget", "/flood", "/dime", "/nep", "/map", "/about",
              "/budget-nep-correlation", "/budget-flood-correlation",
              "/flood-dime-correlation" } |->
        CASE p = "/" -> main_altgovph_home
          [] p = "/budget" -> main_budget
          [] p = "/flood" -> main_flood
          [] p = "/dime" -> main_dime
          [] p = "/nep" -> main_nep
          [] p = "/map" -> main_map
          [] p = "/about" -> main_about
          [] p = "/budget-nep-correlation" -> main_budget_nep_correlation
          [] p = "/budget-flood-correlation" -> main_budget_flood_correlation
          [] p = "/flood-dime-correlation" -> main_flood_dime_correlation ]

Variants == {"altgovph_routes", "main"}

Table(v) == IF v = "main" THEN MainTable ELSE RoutesTable

\* add_frontend_env_to_context of main.rs
main_add_frontend_env_to_context(ctx) ==
    InsertAll(ctx, << <<"SITE_URL", "https://altgovph.site">>,
                      <<"SITE_NAME", "BetterGovPH Data Visualizations">> >>)

(* ------------------------------ state ---------------------------------- *)

VARIABLES
    variant,    \* which server is running: altgovph_routes.rs or main.rs
    st,         \* per worker: the request it handles and the handler's locals
    stdout,     \* lines printed by the process
    served,     \* requests accepted so far
    environ     \* the environment variables of the process

vars == <<variant, st, stdout, served, environ>>

\* Environments the server can be started in.
Environs ==
    { [ SITE_URL |-> None, GOOGLE_CLIENT_ID |-> None,
        FACEBOOK_APP_ID |-> None ],
      [ SITE_URL |-> Some("https://staging.altgovph.site"),
        GOOGLE_CLIENT_ID |-> Some("gid-123"),
        FACEBOOK_APP_ID |-> None ] }

\* std::env::var(name)
env_var(name) == environ[name]

\* Result::unwrap_or_default on a String
unwrap_or_default(r) == IF r.some THEN r.val ELSE ""

(* ------------------------- helpers of utils.rs ------------------------- *)

\* the loader taking SITE_URL from the environment, with the default as fallback
load_frontend_env_ReadsSiteUrl ==
    InsertAll(EmptyContext,
        << <<"SITE_NAME", "BetterGovPH Data Visualizations">>,
           <<"SITE_URL", IF env_var("SITE_URL").some
                         THEN env_var("SITE_URL").val
                         ELSE "https://altgovph.site">>,
           <<"GOOGLE_CLIENT_ID", unwrap_or_default(env_var("GOOGLE_CLIENT_ID"))>>,
           <<"FACEBOOK_APP_ID", unwrap_or_default(env_var("FACEBOOK_APP_ID"))>> >>)

load_frontend_env ==
    InsertAll(EmptyContext,
        << <<"SITE_NAME", "BetterGovPH Data Visualizations">>,
           <<"SITE_URL", "https://altgovph.site">>,
           <<"GOOGLE_CLIENT_ID", unwrap_or_default(env_var("GOOGLE_CLIENT_ID"))>>,
           <<"FACEBOOK_APP_ID", unwrap_or_default(env_var("FACEBOOK_APP_ID"))>> >>)

\* add_frontend_env_to_context of utils.rs
RECURSIVE InsertMap(_, _, _)
InsertMap(ctx, map, keys) ==
    IF keys = {} THEN ctx
    ELSE LET k == CHOOSE x \in keys : TRUE IN
         InsertMap(Insert(ctx, k, map[k]), map, keys \ {k})

utils_add_frontend_env_to_context(ctx) ==
    LET env_vars == load_frontend_env IN
    InsertMap(ctx, env_vars, DOMAIN env_vars)

Workers == 1..NumWorkers

NoRequest == [host |-> None, path |-> "", query |-> None]

Idle ==
    [ pc |-> "idle", req |-> NoRequest, handler |-> "",
      checked |-> {}, loads |-> 0, renders |-> 0,
      tera |-> "unset", rendered |-> "unset",
      context |-> EmptyContext, template_name |-> "", resp |-> None ]

\* the handler function a worker is running
HandlerOf(w) == Table(variant)[st[w].req.path]

Init ==
    /\ variant \in Variants
    /\ st = [w \in Workers |-> Idle]
    /\ stdout = IF variant = "main"
                THEN << "Starting BetterGovPH Open Data Visualization Server" >>
                ELSE << >>
    /\ served = 0
    /\ environ \in Environs

(* --------------------------- handler steps ----------------------------- *)

\* pc of a handler's first statement
Entry(h) == IF h.checks_mobile THEN "check_mobile" ELSE "tera_new"

\* the router hands a request to the handler registered for its path
Dispatch(w, host, path, query) ==
    /\ st[w].pc = "idle"
    /\ served < MaxRequests
    /\ path \in DOMAIN Table(variant)
    /\ st' = [st EXCEPT ![w] =
                [Idle EXCEPT !.pc = Entry(Table(variant)[path]),
                             !.req = [host |-> host, path |-> path,
                                      query |-> query],
                             !.handler = Table(variant)[path].name]]
    /\ served' = served + 1
    /\ UNCHANGED <<variant, environ, stdout>>

Receive(w) ==
    \E host \in HostHeaders, path \in DOMAIN Table(variant), query \in Queries :
        Dispatch(w, host, path, query)

\* if let Some(redirect) = check_mobile_redirect_enhanced(&_req) { return }
CheckMobileRedirect(w) ==
    /\ st[w].pc = "check_mobile"
    /\ LET redirect == check_mobile_redirect_enhanced(st[w].req) IN
       st' = [st EXCEPT ![w] =
                IF redirect.some
                THEN [@ EXCEPT !.pc = "done", !.resp = redirect,
                               !.checked = @ \cup {"mobile"}]
                ELSE [@ EXCEPT !.pc = IF HandlerOf(w).checks_block
                                      THEN "check_block" ELSE "tera_new",
                               !.checked = @ \cup {"mobile"}]]
    /\ UNCHANGED <<variant, environ, stdout, served>>

\* the block response built but not returned: the handler goes on to render
CheckProductionBlock_NoReturn(w) ==
    /\ st[w].pc = "check_block"
    /\ LET block_response == check_production_domain_block(st[w].req) IN
       /\ st' = [st EXCEPT ![w] =
                   [@ EXCEPT !.pc = "tera_new",
                             !.resp = block_response,
                             !.checked = @ \cup {"block"}]]
       /\ stdout' = IF block_response.some
                    THEN Append(stdout, RedirectLogLine(st[w].req))
                    ELSE stdout
    /\ UNCHANGED <<variant, environ, served>>

\* if let Some(block_response) = check_production_domain_block(&_req) { return }
CheckProductionBlock(w) ==
    /\ st[w].pc = "check_block"
    /\ LET block_response == check_production_domain_block(st[w].req) IN
       /\ st' = [st EXCEPT ![w] =
                   IF block_response.some
                   THEN [@ EXCEPT !.pc = "done", !.resp = block_response,
                                  !.checked = @ \cup {"block"}]
                   ELSE [@ EXCEPT !.pc = "tera_new",
                                  !.checked = @ \cup {"block"}]]
       /\ stdout' = IF block_response.some
                    THEN Append(stdout, RedirectLogLine(st[w].req))
                    ELSE stdout
    /\ UNCHANGED <<variant, environ, served>>

InternalServerError ==
    [status |-> StatusInternalServerError, location |-> "", template |-> ""]

Ok(template) == [status |-> StatusOk, location |-> "", template |-> template]

\* the template directory loaded a second time after a failed load
TeraNew_Retry(w) ==
    /\ st[w].pc = "tera_new"
    /\ \E loaded \in BOOLEAN :
         st' = [st EXCEPT ![w] =
                  IF loaded
                  THEN [@ EXCEPT !.pc = "context", !.loads = @ + 1,
                                 !.tera = "Ok"]
                  ELSE IF st[w].loads = 0
                  THEN [@ EXCEPT !.loads = @ + 1, !.tera = "Err"]
                  ELSE [@ EXCEPT !.pc = "done", !.loads = @ + 1,
                                 !.tera = "Err",
                                 !.resp = Some(InternalServerError)]]
    /\ UNCHANGED <<variant, environ, stdout, served>>

\* Tera::new("templates/**/*").map_err(ErrorInternalServerError)?
\* loaded: whether the template directory parsed
TeraNew(w) ==
    /\ st[w].pc = "tera_new"
    /\ \E loaded \in BOOLEAN :
         st' = [st EXCEPT ![w] =
                  IF loaded
                  THEN [@ EXCEPT !.pc = "context", !.loads = @ + 1,
                                 !.tera = "Ok"]
                  ELSE [@ EXCEPT !.pc = "done", !.loads = @ + 1,
                                 !.tera = "Err",
                                 !.resp = Some(InternalServerError)]]
    /\ UNCHANGED <<variant, environ, stdout, served>>

\* the context handed over with the environment values only
BrandContext_EnvOnly(v, h) ==
    IF v = "main" THEN main_add_frontend_env_to_context(EmptyContext)
    ELSE add_frontend_env_to_context(EmptyContext)

\* the environment's SITE_URL inserted after the handler's values
BrandContext_EnvOverrides(v, h) ==
    LET ctx == InsertAll(IF v = "main"
                         THEN main_add_frontend_env_to_context(EmptyContext)
                         ELSE add_frontend_env_to_context(EmptyContext),
                         h.inserts)
    IN IF env_var("SITE_URL").some
       THEN Insert(ctx, "SITE_URL", env_var("SITE_URL").val)
       ELSE ctx

\* the context a handler builds
BrandContext(v, h) ==
    InsertAll(IF v = "main" THEN main_add_frontend_env_to_context(EmptyContext)
              ELSE add_frontend_env_to_context(EmptyContext),
              h.inserts)

\* the template name a handler passes to render
TemplateName(h, req) ==
    IF h.by_host
    THEN IF should_use_mobile_template(req) THEN h.mobile_template
         ELSE h.template
    ELSE h.template

\* the template chosen from a request slot shared by all workers
BuildContext_SharedRequest(w) ==
    /\ st[w].pc = "context"
    /\ st' = [st EXCEPT ![w] =
                [@ EXCEPT !.pc = "render",
                          !.context = BrandContext(variant, HandlerOf(w)),
                          !.template_name = TemplateName(HandlerOf(w), st[1].req)]]
    /\ UNCHANGED <<variant, environ, stdout, served>>

\* Context::new() up to the choice of template_name
BuildContext(w) ==
    /\ st[w].pc = "context"
    /\ st' = [st EXCEPT ![w] =
                [@ EXCEPT !.pc = "render",
                          !.context = BrandContext(variant, HandlerOf(w)),
                          !.template_name = TemplateName(HandlerOf(w), st[w].req)]]
    /\ UNCHANGED <<variant, environ, stdout, served>>

\* tera.render(template_name, &context).map_err(ErrorInternalServerError)?
\* rendered: whether the template exists and renders
Render(w) ==
    /\ st[w].pc = "render"
    /\ \E rendered \in BOOLEAN :
         st' = [st EXCEPT ![w] =
                  [@ EXCEPT !.pc = "done", !.renders = @ + 1,
                            !.rendered = IF rendered THEN "Ok" ELSE "Err",
                            !.resp = IF rendered
                                     THEN Some(Ok(st[w].template_name))
                                     ELSE Some(InternalServerError)]]
    /\ UNCHANGED <<variant, environ, stdout, served>>

\* the response is written to the client and the worker takes the next request
Finish(w) ==
    /\ st[w].pc = "done"
    /\ st' = [st EXCEPT ![w] = Idle]
    /\ UNCHANGED <<variant, environ, stdout, served>>

Step(w) ==
    \/ CheckMobileRedirect(w)
    \/ CheckProductionBlock(w)
    \/ TeraNew(w)
    \/ BuildContext(w)
    \/ Render(w)
    \/ Finish(w)

\* one worker, every request
Next == Receive(1) \/ Step(1)

Spec == Init /\ [][Next]_vars

(* ------------------------ requests in parallel ------------------------- *)

ParHostHeaders ==
    { Some([text |-> "kenchlightyear.com", opaque |-> FALSE]),
      Some([text |-> "m.kenchlightyear.com", opaque |-> FALSE]),
      None }

ParPaths == { "/budget", "/nep" }

ParQueries == { Some("year=2024") }

ReceivePar(w) ==
    \E host \in ParHostHeaders, path \in ParPaths \cap DOMAIN Table(variant),
       query \in ParQueries :
        Dispatch(w, host, path, query)

\* every worker, a selection of requests
NextPar == \E w \in Workers : ReceivePar(w) \/ Step(w)

SpecPar == Init /\ [][NextPar]_vars

(* ============================= properties ============================== *)

LegacyHosts ==
    { Some([text |-> "kenchlightyear.com", opaque |-> FALSE]),
      Some([text |-> "www.kenchlightyear.com", opaque |-> FALSE]) }

LegacyPaths ==
    { "/budget", "/flood", "/alt", "/dime",
      "/budget-flood-correlation", "/flood-dime-correlation" }

AllPaths == DOMAIN RoutesTable \cup DOMAIN MainTable

IsRedirect(resp) == resp.some /\ resp.val.status = 308

\* the Location the spec gives for a request: canonical domain, path, query
ExpectedLocation(req) ==
    IF req.query.some
    THEN "https://altgovph.site" \o req.path \o "?" \o req.query.val
    ELSE "https://altgovph.site" \o req.path

C2_QueryPreserved ==
    \A w \in Workers :
        IsRedirect(st[w].resp) =>
            LET loc == st[w].resp.val.location
                q == st[w].req.query
            IN IF q.some
               THEN /\ EndsWith(loc, "?" \o q.val)
                    /\ Len(loc) = Len("https://altgovph.site")
                                  + Len(st[w].req.path) + 1 + Len(q.val)
               ELSE /\ loc = "https://altgovph.site" \o st[w].req.path
                    /\ ~ EndsWith(loc, "?")

\* C2 witness: a redirect that carries a query holding "?" and "&"
C2_Witness ==
    \E w \in Workers :
        /\ IsRedirect(st[w].resp)
        /\ st[w].req.query = Some("q=a?b&x=1")
        /\ st[w].resp.val.location = "https://altgovph.site/budget?q=a?b&x=1"

\* C3: a request whose Host is anything but exactly kenchlightyear.com or
\* www.kenchlightyear.com (another subdomain, a port suffix, other letter
\* case) is never redirected, on any path and with any query: neither check
\* returns a redirect and no handler answers with one.
C3_OtherHostsNeverRedirect ==
    \A w \in Workers :
        (st[w].pc # "idle" /\ st[w].req.host \notin LegacyHosts) =>
            /\ ~ IsRedirect(st[w].resp)
            /\ \A p \in AllPaths :
                 LET r == [st[w].req EXCEPT !.path = p] IN
                 /\ ~ check_mobile_redirect_enhanced(r).some
                 /\ ~ check_production_domain_block(r).some

\* C3 witness: /budget on the legacy host with a port suffix passed both
\* checks and was rendered
C3_Witness ==
    \E w \in Workers :
        /\ st[w].pc = "done"
        /\ st[w].checked = {"mobile", "block"}
        /\ st[w].req.host = Some([text |-> "kenchlightyear.com:8080",
                                  opaque |-> FALSE])
        /\ st[w].req.path = "/budget"
        /\ st[w].resp.val.status = 200

\* C4: with the Host header absent or not readable as text, every host
\* predicate is false: the request is never redirected, the template chosen
\* is the route's un-prefixed one, and the only answers are the rendered page
\* or the renderer's failure (nothing reports the malformed host).
C4_UnreadableHostFallsThrough ==
    \A w \in Workers :
        (st[w].pc # "idle"
         /\ (~ st[w].req.host.some \/ st[w].req.host.val.opaque)) =>
            /\ ~ should_use_mobile_template(st[w].req)
            /\ ~ check_production_domain_block(st[w].req).some
            /\ ~ IsRedirect(st[w].resp)
            /\ st[w].pc \in {"render", "done"} /\ st[w].tera = "Ok" =>
                 /\ st[w].template_name = HandlerOf(w).template
                 /\ ~ Contains(st[w].template_name, "mobile/")
            /\ st[w].resp.some =>
                 \/ /\ st[w].resp.val.status = 200
                    /\ st[w].resp.val.template = HandlerOf(w).template
                 \/ /\ st[w].resp.val.status = 500
                    /\ "Err" \in {st[w].tera, st[w].rendered}

\* C4 witness: a Host holding a non-text byte next to the mobile host name
\* was rendered with the plain budget template
C4_Witness ==
    \E w \in Workers :
        /\ st[w].pc = "done"
        /\ st[w].req.host = Some([text |-> "m.kenchlightyear.com",
                                  opaque |-> TRUE])
        /\ st[w].resp = Some([status |-> 200, location |-> "",
                              template |-> "budget.html"])

\* the host text carries a mobile-subdomain marker
MobileMarkerHost(host) ==
    /\ host.some
    /\ ~ host.val.opaque
    /\ \/ Contains(host.val.text, "m.kenchlightyear.com")
       \/ Contains(host.val.text, "mobile.kenchlightyear.com")

\* C5: in altgovph_routes.rs every route handler renders a request from a
\* host with a mobile-subdomain marker with "mobile/<template>" rather than
\* "<template>".
C5_MobileHostRendersMobileTemplate ==
    \A w \in Workers :
        ( /\ variant = "altgovph_routes"
          /\ st[w].pc = "done"
          /\ MobileMarkerHost(st[w].req.host)
          /\ st[w].resp.val.status = 200 ) =>
            st[w].resp.val.template = "mobile/" \o HandlerOf(w).template

\* C6: every request ends in exactly one answer, and a redirect decision
\* comes before rendering: the checks of a handler run before the template
\* engine is created, so once the block applies to the request of a handler
\* that runs it the answer is the redirect, the template engine was never
\* loaded or invoked for that request, and it does not end as a page or a 500.
C6_RedirectBeforeRender ==
    \A w \in Workers :
        /\ IsRedirect(st[w].resp) =>
             /\ st[w].pc = "done"
             /\ st[w].loads = 0 /\ st[w].renders = 0
             /\ st[w].tera = "unset" /\ st[w].rendered = "unset"
             /\ st[w].context = EmptyContext
        /\ st[w].pc = "done" =>
             /\ st[w].resp.some
             /\ st[w].resp.val.status \in {200, 308, 500}
        /\ st[w].pc # "done" => ~ st[w].resp.some
        /\ st[w].loads > 0 =>
             /\ ~ IsRedirect(st[w].resp)
             /\ HandlerOf(w).checks_mobile => "mobile" \in st[w].checked
             /\ HandlerOf(w).checks_block => "block" \in st[w].checked
        /\ ( /\ st[w].pc \in {"tera_new", "context", "render", "done"}
             /\ HandlerOf(w).checks_block
             /\ st[w].req.host \in LegacyHosts
             /\ st[w].req.path \in LegacyPaths ) =>
               IsRedirect(st[w].resp)

\* C6 witness: /flood on the legacy host answered by the redirect with the
\* template engine untouched
C6_Witness ==
    \E w \in Workers :
        /\ st[w].pc = "done"
        /\ st[w].handler = "flood"
        /\ IsRedirect(st[w].resp)
        /\ st[w].loads = 0

\* the decision for a request handled alone, from start to end
Alone(v, req) ==
    LET h == Table(v)[req.path]
        block == IF h.checks_block THEN check_production_domain_block(req)
                 ELSE None
    IN IF block.some
       THEN [kind |-> "Redirect", status |-> block.val.status,
             url |-> block.val.location]
       ELSE [kind |-> "Render", template_name |-> TemplateName(h, req),
             context |-> BrandContext(v, h)]

\* the decision a worker has reached for its request
Decided(w) == IsRedirect(st[w].resp) \/ st[w].pc = "render"
                \/ st[w].rendered # "unset"

Observed(w) ==
    IF IsRedirect(st[w].resp)
    THEN [kind |-> "Redirect", status |-> st[w].resp.val.status,
          url |-> st[w].resp.val.location]
    ELSE [kind |-> "Render", template_name |-> st[w].template_name,
          context |-> st[w].context]

\* C7: the routing decision depends on the request alone: under every
\* interleaving of requests handled in parallel, the decision and the context
\* a worker reaches are those of the same request handled alone, and two
\* workers handling equal requests reach equal decisions.
C7_DecisionIsFunctionOfRequest ==
    /\ \A w \in Workers :
         /\ Decided(w) => Observed(w) = Alone(variant, st[w].req)
         /\ st[w].loads > 0 => Alone(variant, st[w].req).kind = "Render"
    /\ \A w1, w2 \in Workers :
         (Decided(w1) /\ Decided(w2) /\ st[w1].req = st[w2].req) =>
             Observed(w1) = Observed(w2)

\* C7 witness: while one worker holds the redirect of /budget on the legacy
\* host, another is about to render the mobile template of /nep
C7_Witness ==
    \E w1, w2 \in Workers :
        /\ w1 # w2
        /\ IsRedirect(st[w1].resp)
        /\ st[w1].req.path = "/budget"
        /\ st[w2].pc = "render"
        /\ st[w2].template_name = "mobile/nep.html"

\* C8: each of the six listed paths, requested with Host kenchlightyear.com
\* from the server of altgovph_routes.rs, is answered by the handler
\* registered for it with a 308 to https://altgovph.site<path>, /alt included.
C8_EveryListedPathRedirects ==
    \A w \in Workers :
        ( /\ variant = "altgovph_routes"
          /\ st[w].pc = "done"
          /\ st[w].req.host = Some([text |-> "kenchlightyear.com",
                                    opaque |-> FALSE])
          /\ st[w].req.path \in LegacyPaths ) =>
            /\ IsRedirect(st[w].resp)
            /\ st[w].resp.val.location = ExpectedLocation(st[w].req)

\* C9: a failure of the template engine (directory not loaded, template
\* missing or render error) on a request that was not redirected ends that
\* request with a 500: after exactly one load attempt and at most one render
\* attempt, with no retry, no other template tried, and never a 200 or a
\* redirect after the failure.
C9_RendererFailureIs500 ==
    \A w \in Workers :
        /\ st[w].loads <= 1 /\ st[w].renders <= st[w].loads
        /\ st[w].tera # "unset" => st[w].loads = 1
        /\ st[w].tera = "Err" =>
             /\ st[w].pc = "done"
             /\ st[w].resp.some /\ st[w].resp.val.status = 500
             /\ st[w].loads = 1 /\ st[w].renders = 0
             /\ st[w].rendered = "unset"
        /\ st[w].rendered = "Err" =>
             /\ st[w].pc = "done"
             /\ st[w].resp.some /\ st[w].resp.val.status = 500
             /\ st[w].loads = 1 /\ st[w].renders = 1
        /\ (st[w].resp.some /\ st[w].resp.val.status = 200) =>
             st[w].tera = "Ok" /\ st[w].rendered = "Ok"

\* C9 witness: dime answered 500 after its one render attempt failed
C9_Witness ==
    \E w \in Workers :
        /\ st[w].handler = "dime"
        /\ st[w].rendered = "Err"
        /\ st[w].renders = 1
        /\ st[w].resp.val.status = 500

\* C10: the mobile-redirect check returns None for every request, with or
\* without a mobile marker in the host, so a handler always goes past it: no
\* answer comes from step 1, every answer comes from the block or from the
\* template engine, as it would with step 1 left out.
C10_MobileCheckNeverRedirects ==
    \A w \in Workers :
        st[w].pc # "idle" =>
            /\ \A p \in AllPaths :
                 check_mobile_redirect_enhanced(
                     [st[w].req EXCEPT !.path = p]) = None
            /\ "mobile" \in st[w].checked =>
                 /\ st[w].pc # "check_mobile"
                 /\ st[w].resp.some =>
                      "block" \in st[w].checked \/ st[w].loads = 1
            /\ HandlerOf(w).checks_mobile =>
                 (st[w].pc = "check_mobile" \/ "mobile" \in st[w].checked)

\* C10 witness: altgovph_home went past the mobile check on a mobile host
C10_Witness ==
    \E w \in Workers :
        /\ st[w].handler = "altgovph_home"
        /\ st[w].req.host = Some([text |-> "mobile.kenchlightyear.com",
                                  opaque |-> FALSE])
        /\ "mobile" \in st[w].checked
        /\ st[w].pc = "tera_new"

\* C11: should_use_mobile_template depends on the Host header alone: it is
\* true exactly when the host text is readable and holds m.kenchlightyear.com
\* or mobile.kenchlightyear.com as a substring, whatever the path, the query
\* and the result of check_mobile_redirect_enhanced; a host without the
\* marker always gets the un-prefixed template name.
C11_MobileTemplateDependsOnHostOnly ==
    \A w \in Workers :
        st[w].pc # "idle" =>
            /\ \A p \in AllPaths, q \in Queries :
                 should_use_mobile_template(
                     [st[w].req EXCEPT !.path = p, !.query = q])
                   = MobileMarkerHost(st[w].req.host)
            /\ (variant = "altgovph_routes" /\ st[w].tera = "Ok"
                /\ st[w].pc \in {"render", "done"}) =>
                 /\ "mobile" \in st[w].checked
                 /\ ~ MobileMarkerHost(st[w].req.host) =>
                      st[w].template_name = HandlerOf(w).template
                 /\ (MobileMarkerHost(st[w].req.host) /\ HandlerOf(w).by_host) =>
                      st[w].template_name = "mobile/" \o HandlerOf(w).template

\* C11 witness: a host that holds the marker inside a longer name, with a
\* query, got the mobile template of /nep after the mobile check returned None
C11_Witness ==
    \E w \in Workers :
        /\ st[w].pc = "render"
        /\ "mobile" \in st[w].checked
        /\ st[w].req.host = Some([text |-> "em.kenchlightyear.com",
                                  opaque |-> FALSE])
        /\ st[w].req.query = Some("year=2024")
        /\ st[w].template_name = "mobile/nep.html"

BrandKeys ==
    { "title", "company_name", "platform", "SITE_NAME", "SITE_URL",
      "og_title", "og_description", "og_url", "og_image" }

\* a worker holds the context it hands, or has handed, to tera.render
HandsContext(w) == st[w].pc = "render" \/ st[w].rendered # "unset"

\* C12: every Render decision hands the renderer a context with a value for
\* each of title, company_name, platform, site name, site URL, og_title,
\* og_description, og_url and og_image, in every handler of every variant.
C12_ContextFullyPopulated ==
    \A w \in Workers :
        HandsContext(w) => BrandKeys \subseteq DOMAIN st[w].context

\* the keys each handler's context holds
KeysOf(v, name) ==
    IF v = "main"
    THEN { "title", "company_name", "platform", "SITE_NAME", "SITE_URL" }
    ELSE IF name \in {"altgovph_home", "budget", "flood", "dime", "nep"}
    THEN BrandKeys
    ELSE IF name \in {"budget_nep_correlation", "flood_dime_correlation"}
    THEN BrandKeys \ {"og_title", "og_description"}
    ELSE BrandKeys \ {"title", "og_title", "og_description"}

\* C12 (amended): every Render decision hands the renderer a context holding
\* company_name, platform, SITE_NAME and SITE_URL, each with a non-empty
\* value; title is there in every handler but budget_flood_correlation of
\* altgovph_routes.rs, og_url and og_image only in the handlers of
\* altgovph_routes.rs, og_title and og_description only in its altgovph_home,
\* budget, flood, dime and nep.
C12_ContextHoldsBrandIdentity ==
    \A w \in Workers :
        HandsContext(w) =>
            /\ { "company_name", "platform", "SITE_NAME", "SITE_URL" }
                 \subseteq DOMAIN st[w].context
            /\ DOMAIN st[w].context = KeysOf(variant, st[w].handler)
            /\ \A k \in DOMAIN st[w].context : st[w].context[k] # ""
            /\ st[w].context["company_name"] = "BetterGovPH"
            /\ st[w].context["platform"] = "BetterGovPH"

\* C12 witness: budget_flood_correlation is about to render with a context
\* that has the brand identity and og_url but no title
C12_Witness ==
    \E w \in Workers :
        /\ st[w].pc = "render"
        /\ st[w].handler = "budget_flood_correlation"
        /\ "title" \notin DOMAIN st[w].context
        /\ st[w].context["og_url"]
             = "https://altgovph.site/budget-flood-correlation"
        /\ st[w].context["SITE_NAME"] = "BetterGovPH"

\* C13: SITE_URL may be overridden by an environment variable: when the
\* environment supplies a SITE_URL value, that value is the SITE_URL of the
\* context the handler passes to the renderer.
C13_EnvironmentOverridesSiteUrl ==
    \A w \in Workers :
        (HandsContext(w) /\ environ["SITE_URL"].some) =>
            st[w].context["SITE_URL"] = environ["SITE_URL"].val

\* C13 (amended): the context is built from the frontend-environment values
\* and then the handler's constants, which are inserted last and win: the
\* SITE_URL handed to the renderer is always https://altgovph.site, whatever
\* the SITE_URL environment variable holds; the loader of utils.rs gives the
\* same constant and reads only GOOGLE_CLIENT_ID and FACEBOOK_APP_ID (empty
\* when unset) from the environment.
C13_SiteUrlIsHandlerConstant ==
    /\ \A w \in Workers :
         HandsContext(w) =>
             /\ st[w].context["SITE_URL"] = "https://altgovph.site"
             /\ st[w].context = InsertAll(st[w].context, HandlerOf(w).inserts)
    /\ load_frontend_env["SITE_URL"] = "https://altgovph.site"
    /\ utils_add_frontend_env_to_context(EmptyContext)["SITE_URL"]
         = "https://altgovph.site"
    /\ load_frontend_env["GOOGLE_CLIENT_ID"]
         = (IF environ["GOOGLE_CLIENT_ID"].some
            THEN environ["GOOGLE_CLIENT_ID"].val ELSE "")
    /\ load_frontend_env["FACEBOOK_APP_ID"]
         = (IF environ["FACEBOOK_APP_ID"].some
            THEN environ["FACEBOOK_APP_ID"].val ELSE "")

\* C13 witness: with SITE_URL set to the staging site in the environment,
\* budget is about to render with the constant SITE_URL
C13_Witness ==
    \E w \in Workers :
        /\ environ["SITE_URL"] = Some("https://staging.altgovph.site")
        /\ st[w].pc = "render"
        /\ st[w].handler = "budget"
        /\ st[w].context["SITE_URL"] = "https://altgovph.site"

\* C14: redirect and mobile-template selection exclude each other: no Host
\* both equals kenchlightyear.com or www.kenchlightyear.com and holds a mobile
\* marker, so on every path a redirected request does not qualify for the
\* mobile template and a request from a mobile-marker host is not redirected.
C14_RedirectExcludesMobile ==
    \A w \in Workers :
        st[w].pc # "idle" =>
            /\ ~ (st[w].req.host \in LegacyHosts
                  /\ MobileMarkerHost(st[w].req.host))
            /\ \A p \in AllPaths :
                 LET r == [st[w].req EXCEPT !.path = p] IN
                 ~ (check_production_domain_block(r).some
                    /\ should_use_mobile_template(r))
            /\ IsRedirect(st[w].resp) =>
                 /\ ~ should_use_mobile_template(st[w].req)
                 /\ st[w].template_name = ""
            /\ MobileMarkerHost(st[w].req.host) => ~ IsRedirect(st[w].resp)

\* C14 witness: /budget from the mobile host passed the block and was
\* rendered with the mobile template
C14_Witness ==
    \E w \in Workers :
        /\ st[w].pc = "done"
        /\ "block" \in st[w].checked
        /\ st[w].req.host = Some([text |-> "m.kenchlightyear.com",
                                  opaque |-> FALSE])
        /\ st[w].resp = Some([status |-> 200, location |-> "",
                              template |-> "mobile/budget.html"])

\* C15: in the standalone server main.rs host-based routing is off: for every
\* host, registered path and query the handler runs no check, never answers
\* with a redirect and always takes the route's fixed un-prefixed template, so
\* a request ends as the rendered page (200) or the renderer's failure (500).
C15_StandaloneIgnoresHost ==
    \A w \in Workers :
        (variant = "main" /\ st[w].pc # "idle") =>
            /\ st[w].checked = {}
            /\ st[w].pc \in {"tera_new", "context", "render", "done"}
            /\ ~ IsRedirect(st[w].resp)
            /\ ~ main_should_use_mobile_template(st[w].req)
            /\ ~ main_check_mobile_redirect_enhanced(st[w].req).some
            /\ ~ main_check_production_domain_block(st[w].req).some
            /\ HandsContext(w) =>
                 /\ st[w].template_name = MainTable[st[w].req.path].template
                 /\ ~ Contains(st[w].template_name, "mobile/")
            /\ st[w].pc = "done" =>
                 \/ st[w].resp = Some([status |-> 200, location |-> "",
                        template |-> MainTable[st[w].req.path].template])
                 \/ st[w].resp = Some([status |-> 500, location |-> "",
                                       template |-> ""])

\* C15 witness: /budget on the legacy production host, with a query, was
\* rendered by the standalone server
C15_Witness ==
    \E w \in Workers :
        /\ variant = "main"
        /\ st[w].pc = "done"
        /\ st[w].req.host = Some([text |-> "kenchlightyear.com",
                                  opaque |-> FALSE])
        /\ st[w].req.path = "/budget"
        /\ st[w].req.query = Some("year=2024")
        /\ st[w].resp = Some([status |-> 200, location |-> "",
                              template |-> "budget.html"])

====
